---- MODULE Spec2Model ----
(***************************************************************************)
(* Execution engine of docmod: the Celery tasks execute_graph,             *)
(* execute_level, execute_node, finalize_execution and cancel_execution    *)
(* (src/celery_tasks.py), the graph analysis they use                      *)
(* (src/graphq_validator.py) and the cancel mutation that enqueues         *)
(* cancel_execution (src/graphql_mutation.py), acting on one Execution.    *)
(*                                                                         *)
(* Atomic steps are the database commits and the Redis commands of each    *)
(* task; a task that commits more than once is split at its commits.       *)
(* cancel_execution is also split between loading the rows and committing, *)
(* because the node tasks commit to the rows it loaded while it runs; the  *)
(* Redis read-append-write of execute_node is split at the read.           *)
(* cancel_early is a history variable, read by no action.                  *)
(***************************************************************************)
EXTENDS Integers, Sequences, FiniteSets, TLC

\* ------------------------------------------------------------------------
\* Bounds of the model
\* ------------------------------------------------------------------------

\* number of cancel requests a client makes against the execution
MaxCancels == 1

\* how many times the broker delivers one task message
MaxDeliveries == 2

\* how many Executions of the graph the mutations create
MaxExecutions == 2

\* node keys of the graphs explored, in the order the nodes are supplied
NodeKeys == <<"A", "B", "C">>

\* ------------------------------------------------------------------------
\* Enumerations and null
\* ------------------------------------------------------------------------

PENDING == "pending"
RUNNING == "running"
SUCCESS == "success"
FAILED == "failed"
CANCELLED == "cancelled"
TIMEOUT == "timeout"

ExecutionStatus == {PENDING, RUNNING, SUCCESS, FAILED, CANCELLED, TIMEOUT}

ON_SUCCESS == "on_success"
ON_FAILURE == "on_failure"
ALWAYS == "always"

EdgeCondition == {ON_SUCCESS, ON_FAILURE, ALWAYS}

\* spec.md glossary: a terminal status is any of these four
Terminal == {SUCCESS, FAILED, CANCELLED, TIMEOUT}

\* Python None is the empty sequence, a present value x is <<x>>
None == <<>>
Some(x) == <<x>>

\* ------------------------------------------------------------------------
\* Graphs
\* ------------------------------------------------------------------------

Edge(s, t, c) == [source_node_key |-> s, target_node_key |-> t, condition |-> c]

\* the nodes of a graph are the first n node keys
Prefix(n) == SubSeq(NodeKeys, 1, n)

\* the ordered pairs (i, j), i < j, in lexicographic order
RECURSIVE ForwardPairs(_, _, _)
ForwardPairs(n, i, j) ==
    IF i >= n THEN <<>>
    ELSE IF j > n THEN ForwardPairs(n, i + 1, i + 2)
    ELSE <<(<<i, j>>)>> \o ForwardPairs(n, i, j + 1)

\* the edge list chosen by `pick`: per forward pair no edge or one condition
RECURSIVE EdgesOf(_, _)
EdgesOf(pairs, pick) ==
    IF pairs = <<>> THEN <<>>
    ELSE LET p == Head(pairs)
             rest == EdgesOf(Tail(pairs), pick)
         IN IF pick[p] = "none" THEN rest
            ELSE <<Edge(NodeKeys[p[1]], NodeKeys[p[2]], pick[p])>> \o rest

PairSet(n) == {p \in (1..n) \X (1..n) : p[1] < p[2]}

\* every graph on a prefix of NodeKeys whose edges all point forward
ForwardGraphs ==
    UNION {{[nodes |-> Prefix(n), edges |-> EdgesOf(ForwardPairs(n, 1, 2), pick)] :
                pick \in [PairSet(n) -> EdgeCondition \cup {"none"}]} :
           n \in 0..Len(NodeKeys)}

\* graphs that are not forward: cycles, a self-loop, parallel edges
OtherGraphs ==
    { [nodes |-> <<"A", "B">>,
       edges |-> <<Edge("A", "B", ON_SUCCESS), Edge("B", "A", ON_SUCCESS)>>],
      [nodes |-> <<"A", "B", "C">>,
       edges |-> <<Edge("A", "B", ALWAYS), Edge("B", "C", ON_SUCCESS), Edge("C", "B", ON_SUCCESS)>>],
      [nodes |-> <<"A", "B">>,
       edges |-> <<Edge("A", "B", ON_SUCCESS), Edge("B", "B", ALWAYS)>>],
      [nodes |-> <<"A", "B">>,
       edges |-> <<Edge("A", "B", ON_SUCCESS), Edge("A", "B", ON_FAILURE)>>],
      [nodes |-> <<"A", "B">>,
       edges |-> <<Edge("A", "B", ALWAYS), Edge("A", "B", ALWAYS)>>] }

Graphs == ForwardGraphs \cup OtherGraphs

\* the forward graphs with every edge turned round: edges that point from a
\* node supplied later to a node supplied earlier
ReversedGraphs ==
    {[nodes |-> g.nodes,
      edges |-> [i \in DOMAIN g.edges |->
                    Edge(g.edges[i].target_node_key, g.edges[i].source_node_key,
                         g.edges[i].condition)]] : g \in ForwardGraphs}

\* graph inputs with an edge whose source or target is not a node of the input
UnknownKeyGraphs ==
    { [nodes |-> <<"A">>, edges |-> <<Edge("A", "Z", ON_SUCCESS)>>],
      [nodes |-> <<"A", "B">>, edges |-> <<Edge("Z", "B", ALWAYS)>>],
      [nodes |-> <<"A", "B">>,
       edges |-> <<Edge("A", "B", ON_SUCCESS), Edge("B", "Z", ON_FAILURE)>>],
      [nodes |-> <<>>, edges |-> <<Edge("Y", "Z", ALWAYS)>>] }

\* what a client may hand to create_graph
GraphInputs == Graphs \cup ReversedGraphs \cup UnknownKeyGraphs

Range(s) == {s[i] : i \in DOMAIN s}

\* ------------------------------------------------------------------------
\* GraphValidator
\* ------------------------------------------------------------------------

\* adj_list[k]: the edges leaving k, in edge order
adj_list(g, k) == SelectSeq(g.edges, LAMBDA e : e.source_node_key = k)

\* the neighbours visited by "for node in level: for neighbor in adj_list[node]"
RECURSIVE Visits(_, _)
Visits(g, level) ==
    IF level = <<>> THEN <<>>
    ELSE LET out == adj_list(g, Head(level))
         IN [i \in 1..Len(out) |-> out[i].target_node_key] \o Visits(g, Tail(level))

\* in_degree after the counting loop
in_degree(g) ==
    [n \in Range(g.nodes) |->
        Cardinality({i \in DOMAIN g.edges :
                        /\ g.edges[i].target_node_key = n
                        /\ g.edges[i].source_node_key \in Range(g.nodes)})]

\* a neighbour joins the next level at every visit, whatever its in-degree
RECURSIVE Relax_on_visit(_, _, _)
Relax_on_visit(visits, deg, next_level) ==
    IF visits = <<>> THEN [in_degree |-> deg, next_level |-> next_level]
    ELSE LET nb == Head(visits)
             d == deg[nb] - 1
         IN Relax_on_visit(Tail(visits), [deg EXCEPT ![nb] = d], Append(next_level, nb))

\* the inner loops of get_execution_levels over one level
RECURSIVE Relax(_, _, _)
Relax(visits, deg, next_level) ==
    IF visits = <<>> THEN [in_degree |-> deg, next_level |-> next_level]
    ELSE LET nb == Head(visits)
             d == deg[nb] - 1
         IN Relax(Tail(visits), [deg EXCEPT ![nb] = d],
                  IF d = 0 THEN Append(next_level, nb) ELSE next_level)

\* the while loop of get_execution_levels
RECURSIVE LevelsLoop(_, _, _, _)
LevelsLoop(g, deg, current_level, levels) ==
    IF current_level = <<>> THEN levels
    ELSE LET r == Relax(Visits(g, current_level), deg, <<>>)
         IN LevelsLoop(g, r.in_degree, r.next_level, Append(levels, current_level))

get_execution_levels(g) ==
    LET deg == in_degree(g)
    IN LevelsLoop(g, deg, SelectSeq(g.nodes, LAMBDA n : deg[n] = 0), <<>>)

\* raise and return of a call
Raised(message) == [raised |-> TRUE, value |-> message]
Returned(value) == [raised |-> FALSE, value |-> value]

\* a stack in place of the queue: the node added last is taken first
RECURSIVE KahnLoop_lifo(_, _, _, _)
KahnLoop_lifo(g, deg, queue, result) ==
    IF queue = <<>> THEN result
    ELSE LET node == queue[Len(queue)]
             r == Relax(Visits(g, <<node>>), deg, SubSeq(queue, 1, Len(queue) - 1))
         IN KahnLoop_lifo(g, r.in_degree, r.next_level, Append(result, node))

\* the while loop of topological_sort: popleft, append to result, relax the
\* neighbours and append those that reach in-degree 0 to the queue
RECURSIVE KahnLoop(_, _, _, _)
KahnLoop(g, deg, queue, result) ==
    IF queue = <<>> THEN result
    ELSE LET node == Head(queue)
             r == Relax(Visits(g, <<node>>), deg, Tail(queue))
         IN KahnLoop(g, r.in_degree, r.next_level, Append(result, node))

topological_sort(g) ==
    LET deg == in_degree(g)
        result == KahnLoop(g, deg, SelectSeq(g.nodes, LAMBDA n : deg[n] = 0), <<>>)
    IN IF Len(result) # Len(g.nodes) THEN Raised("Graph has a cycle")
       ELSE Returned(result)

\* has_cycle: the depth-first search from `node`, returning whether a back
\* edge was met and the nodes visited so far
RECURSIVE dfs(_, _, _, _)
RECURSIVE dfs_neighbors(_, _, _, _)
dfs(g, node, visited, rec_stack) ==
    LET out == adj_list(g, node)
    IN dfs_neighbors(g, [i \in 1..Len(out) |-> out[i].target_node_key],
                     visited \cup {node}, rec_stack \cup {node})

dfs_neighbors(g, neighbors, visited, rec_stack) ==
    IF neighbors = <<>> THEN [cycle |-> FALSE, visited |-> visited]
    ELSE LET neighbor == Head(neighbors)
         IN IF neighbor \notin visited
            THEN LET r == dfs(g, neighbor, visited, rec_stack)
                 IN IF r.cycle THEN r
                    ELSE dfs_neighbors(g, Tail(neighbors), r.visited, rec_stack)
            ELSE IF neighbor \in rec_stack
            THEN [cycle |-> TRUE, visited |-> visited]
            ELSE dfs_neighbors(g, Tail(neighbors), visited, rec_stack)

\* has_cycle: the loop over the nodes not yet visited
RECURSIVE has_cycle_from(_, _, _)
has_cycle_from(g, nodes, visited) ==
    IF nodes = <<>> THEN FALSE
    ELSE IF Head(nodes) \in visited THEN has_cycle_from(g, Tail(nodes), visited)
    ELSE LET r == dfs(g, Head(nodes), visited, {})
         IN r.cycle \/ has_cycle_from(g, Tail(nodes), r.visited)

has_cycle(g) == has_cycle_from(g, g.nodes, {})

\* validate: (is_valid, error_message)
validate(g) ==
    IF g.nodes = <<>> THEN [is_valid |-> FALSE, error_message |-> "Graph has no nodes"]
    ELSE IF has_cycle(g)
    THEN [is_valid |-> FALSE, error_message |-> "Graph contains a cycle"]
    ELSE IF \E i \in DOMAIN g.edges : g.edges[i].source_node_key \notin Range(g.nodes)
    THEN [is_valid |-> FALSE, error_message |-> "Edge references non-existent source node"]
    ELSE IF \E i \in DOMAIN g.edges : g.edges[i].target_node_key \notin Range(g.nodes)
    THEN [is_valid |-> FALSE, error_message |-> "Edge references non-existent target node"]
    ELSE [is_valid |-> TRUE, error_message |-> ""]

\* Mutation.create_graph stores a graph only if validate accepts it
CreatedGraphs == {g \in Graphs : validate(g).is_valid}

\* get_dependencies: one entry per edge into node_key, grouped by source in node order
RECURSIVE DepsFrom(_, _, _)
DepsFrom(g, nodes, node_key) ==
    IF nodes = <<>> THEN <<>>
    ELSE LET hits == SelectSeq(adj_list(g, Head(nodes)),
                               LAMBDA e : e.target_node_key = node_key)
         IN [i \in 1..Len(hits) |-> Head(nodes)] \o DepsFrom(g, Tail(nodes), node_key)

get_dependencies(g, node_key) == DepsFrom(g, g.nodes, node_key)

\* ------------------------------------------------------------------------
\* State
\* ------------------------------------------------------------------------

VARIABLES
    graph,            \* the graph row: nodes, edges and the is_active flag
    execution,        \* the newest Execution row of the graph
    node_executions,  \* the NodeExecution rows, indexed by id
    redis,            \* the hash execution:<id>:state
    eg,               \* the execute_graph task: pc, levels, node_executions map
    level_task,       \* the queued execute_level task: its level_idx, or -1
    chord_level,      \* the level whose chord of node tasks is in flight, or -1
    node_task,        \* the execute_node task of each node key
    fin_pc,           \* the finalize_execution task
    cancels,          \* the cancel_execution tasks
    clock,            \* the clock read by datetime.utcnow()
    cancel_early,     \* a cancel was requested before the last level's fan-in
    validator         \* the GraphValidator call of a mutation or resolver

vars == <<graph, execution, node_executions, redis, eg, level_task, chord_level,
          node_task, fin_pc, cancels, clock, cancel_early, validator>>

Nodes == Range(graph.nodes)

NoRedis == [status |-> None, completed_nodes |-> None, failed_nodes |-> None]

IdleTask == [pc |-> "idle", success |-> FALSE, list |-> <<>>, result |-> None]

\* datetime.utcnow(): every call reads an instant clock.tick later than the
\* call before
utcnow == clock.now + clock.tick

\* no GraphValidator call is being made outside the tasks
NoCall == [pc |-> "none"]

\* graphql_mutation.py lines 236-243 and 322-329: a new PENDING Execution row
NewExecution(id) ==
    [id |-> id, status |-> PENDING, error_message |-> None,
     started_at |-> None, completed_at |-> None]

\* graphql_mutation.py lines 245-249 and 331-335: the execute_graph task of a
\* new execution, enqueued
QueuedExecuteGraph ==
    [pc |-> "queued", levels |-> <<>>, node_executions |-> <<>>, delivery |-> 1]

\* no cancel_execution task exists for a new execution
NoCancels ==
    [i \in 1..MaxCancels |->
        [pc |-> "none", pending |-> {}, at |-> None, delivery |-> 1]]

\* the execute_graph mutation has stored a PENDING Execution of graph g and
\* enqueued the execute_graph task
Submitted(g) ==
    /\ graph = [nodes |-> g.nodes, edges |-> g.edges, is_active |-> TRUE]
    /\ execution = NewExecution(1)
    /\ node_executions = <<>>
    /\ redis = NoRedis
    /\ eg = QueuedExecuteGraph
    /\ level_task = -1
    /\ chord_level = -1
    /\ node_task = [k \in Range(g.nodes) |-> IdleTask]
    /\ fin_pc = "none"
    /\ cancels = NoCancels
    /\ cancel_early = FALSE
    /\ validator = NoCall

\* the graph was stored by create_graph; the clock is too coarse to tell two
\* instants of the execution apart, so a timestamp only shows that it is set
Init ==
    /\ \E g \in CreatedGraphs : Submitted(g)
    /\ clock = [now |-> 0, tick |-> 0]

\* the graph row is any graph, also one that validate rejects
InitAnyGraph ==
    /\ \E g \in Graphs : Submitted(g)
    /\ clock = [now |-> 0, tick |-> 0]

\* every level of the graph is a single node
Serial(g) ==
    LET levels == get_execution_levels(g)
    IN \A i \in DOMAIN levels : Len(levels[i]) = 1

\* the created graphs with an edge and one node per level, a fan-in and a fan-out
TimedGraphs ==
    {g \in CreatedGraphs : Len(g.edges) >= 1 /\ Serial(g)} \cup
    { [nodes |-> <<"A", "B", "C">>,
       edges |-> <<Edge("A", "C", ALWAYS), Edge("B", "C", ALWAYS)>>],
      [nodes |-> <<"A", "B", "C">>,
       edges |-> <<Edge("A", "B", ON_SUCCESS), Edge("A", "C", ON_FAILURE)>>] }

\* a clock that tells every two calls of utcnow() apart
InitTimed ==
    /\ \E g \in TimedGraphs : Submitted(g)
    /\ clock = [now |-> 0, tick |-> 1]

\* the created graphs of at most one node
SmallGraphs == {g \in CreatedGraphs : Len(g.nodes) <= 1}

\* the created graphs of at most two nodes
ApiGraphs == {g \in CreatedGraphs : Len(g.nodes) <= 2}

\* graph is the input of create_graph or the graph a resolver reads; no
\* task runs
InitValidator ==
    /\ \E g \in GraphInputs : Submitted(g)
    /\ clock = [now |-> 0, tick |-> 0]

InitApi ==
    /\ \E g \in ApiGraphs : Submitted(g)
    /\ clock = [now |-> 0, tick |-> 0]

InitRedelivery ==
    /\ \E g \in SmallGraphs : Submitted(g)
    /\ clock = [now |-> 0, tick |-> 1]

\* ------------------------------------------------------------------------
\* execute_graph
\* ------------------------------------------------------------------------

\* lines 22-30: load the execution, write RUNNING, commit
execute_graph_start ==
    /\ eg.pc = "queued"
    /\ execution' = [execution EXCEPT !.status = RUNNING,
                                       !.started_at = Some(utcnow)]
    /\ eg' = [eg EXCEPT !.pc = "analyse"]
    /\ clock' = [clock EXCEPT !.now = utcnow]
    /\ UNCHANGED <<validator, graph, node_executions, redis, level_task, chord_level,
                   node_task, fin_pc, cancels, cancel_early>>

\* lines 32-66: get_execution_levels (it raises for none of these graphs, so the except
\* branch is never taken), then initialise the Redis hash
execute_graph_init_state ==
    /\ eg.pc = "analyse"
    /\ eg' = [eg EXCEPT !.pc = "create", !.levels = get_execution_levels(graph)]
    /\ redis' = [status |-> Some(RUNNING),
                 completed_nodes |-> Some(<<>>),
                 failed_nodes |-> Some(<<>>)]
    /\ UNCHANGED <<validator, graph, clock, execution, node_executions, level_task, chord_level,
                   node_task, fin_pc, cancels, cancel_early>>

NewNodeExecution(k) ==
    [node_key |-> k, status |-> PENDING, input_data |-> None,
     output_data |-> None, error_message |-> None,
     started_at |-> None, completed_at |-> None]

\* lines 68-86: one PENDING NodeExecution per node, commit, dispatch level 0
execute_graph_create_nodes ==
    /\ eg.pc = "create"
    /\ LET base == Len(node_executions)
           n == Len(graph.nodes)
       IN /\ node_executions' = node_executions \o
                 [i \in 1..n |-> NewNodeExecution(graph.nodes[i])]
          /\ eg' = [eg EXCEPT !.pc = "done",
                              !.node_executions =
                                  [k \in Nodes |->
                                      base + CHOOSE i \in 1..n : graph.nodes[i] = k]]
    /\ level_task' = IF eg.levels # <<>> THEN 0 ELSE level_task
    /\ UNCHANGED <<validator, graph, clock, execution, redis, chord_level, node_task, fin_pc,
                   cancels, cancel_early>>

\* ------------------------------------------------------------------------
\* execute_level and the chord of a level
\* ------------------------------------------------------------------------

\* lines 94-97: past the last level, enqueue finalize_execution
execute_level_finalize ==
    /\ level_task >= Len(eg.levels)
    /\ level_task' = -1
    /\ fin_pc' = "queued"
    /\ UNCHANGED <<validator, graph, clock, execution, node_executions, redis, eg, chord_level,
                   node_task, cancels, cancel_early>>

\* lines 99-105: the Redis status flag says cancelled, return
execute_level_cancelled ==
    /\ level_task >= 0
    /\ level_task < Len(eg.levels)
    /\ redis.status = Some(CANCELLED)
    /\ level_task' = -1
    /\ UNCHANGED <<validator, graph, clock, execution, node_executions, redis, eg, chord_level,
                   node_task, fin_pc, cancels, cancel_early>>

\* lines 107-120: one execute_node task per node of the level, as the header
\* of a chord whose callback is execute_level for the next level; without
\* tasks the next level is enqueued directly
execute_level_dispatch ==
    /\ level_task >= 0
    /\ level_task < Len(eg.levels)
    /\ redis.status # Some(CANCELLED)
    /\ LET current_level_nodes == eg.levels[level_task + 1]
       IN IF current_level_nodes # <<>>
          THEN /\ node_task' = [k \in Nodes |->
                                   IF k \in Range(current_level_nodes)
                                   THEN [node_task[k] EXCEPT !.pc = "queued"]
                                   ELSE node_task[k]]
               /\ chord_level' = level_task
               /\ level_task' = -1
          ELSE /\ level_task' = level_task + 1
               /\ UNCHANGED <<node_task, chord_level>>
    /\ UNCHANGED <<validator, graph, clock, execution, node_executions, redis, eg, fin_pc,
                   cancels, cancel_early>>

\* the tasks of the chord header that have begun
HeaderDone_started(level) == {k \in Range(level) : node_task[k].pc \notin {"idle", "queued"}}

\* the tasks of the chord header that have returned
HeaderDone(level) == {k \in Range(level) : node_task[k].pc = "done"}

\* a chord that calls back as soon as one header task has returned
ChordReady_any(level) == HeaderDone(level) # {}

\* celery chord: the callback runs once every header task has returned
ChordReady(level) == HeaderDone(level) = Range(level)

chord_callback ==
    /\ chord_level >= 0
    /\ ChordReady(eg.levels[chord_level + 1])
    /\ level_task' = chord_level + 1
    /\ chord_level' = -1
    /\ UNCHANGED <<validator, graph, clock, execution, node_executions, redis, eg, node_task,
                   fin_pc, cancels, cancel_early>>

\* ------------------------------------------------------------------------
\* execute_node
\* ------------------------------------------------------------------------

\* inputs[dep_key] = value
DictSet(d, key, value) ==
    [x \in DOMAIN d \cup {key} |-> IF x = key THEN value ELSE d[x]]

EmptyDict == [x \in {} |-> None]

\* the condition of the first edge dep_key -> node_key, no condition without one
FirstEdgeCondition(edges, dep_key, node_key) ==
    LET hits == SelectSeq(edges, LAMBDA e : /\ e.source_node_key = dep_key
                                            /\ e.target_node_key = node_key)
    IN IF hits = <<>> THEN "" ELSE Head(hits).condition

\* any terminal status lets the loop go on to the edge condition
DependencyCompleted_terminal(status) == status \in Terminal

\* whether the predecessor's status lets the loop go on to the edge condition
DependencyCompleted(status) == status \in {SUCCESS, FAILED}

\* the loop of check_dependencies over the remaining dependencies
RECURSIVE CheckLoop(_, _, _, _, _, _)
CheckLoop(rows, node_key, dependencies, edges, node_exec_map, inputs) ==
    IF dependencies = <<>> THEN [should_execute |-> TRUE, inputs |-> inputs]
    ELSE LET dep_key == Head(dependencies)
             edge_condition == FirstEdgeCondition(edges, dep_key, node_key)
             dep_exec == rows[node_exec_map[dep_key]]
             blocked == [should_execute |-> FALSE, inputs |-> EmptyDict]
         IN IF ~DependencyCompleted(dep_exec.status) THEN blocked
            ELSE IF edge_condition = ON_SUCCESS /\ dep_exec.status # SUCCESS THEN blocked
            ELSE IF edge_condition = ON_FAILURE /\ dep_exec.status # FAILED THEN blocked
            ELSE CheckLoop(rows, node_key, Tail(dependencies), edges, node_exec_map,
                           IF dep_exec.status = SUCCESS /\ dep_exec.output_data # None
                           THEN DictSet(inputs, dep_key, dep_exec.output_data[1])
                           ELSE inputs)

check_dependencies(rows, node_key, dependencies, edges, node_exec_map) ==
    IF dependencies = <<>> THEN [should_execute |-> TRUE, inputs |-> EmptyDict]
    ELSE CheckLoop(rows, node_key, dependencies, edges, node_exec_map, EmptyDict)

\* a skip that also stamps started_at
Skipped_started(row) ==
    [row EXCEPT !.status = CANCELLED, !.started_at = Some(utcnow),
                !.completed_at = Some(utcnow)]

\* lines 157-160: the row of a node whose dependencies do not allow it to run
Skipped(row) == [row EXCEPT !.status = CANCELLED, !.completed_at = Some(utcnow)]

\* lines 128-168: evaluate the gate; write CANCELLED and return, or write
\* RUNNING with the inputs
execute_node_begin ==
    \E k \in Nodes :
        /\ node_task[k].pc = "queued"
        /\ LET id == eg.node_executions[k]
               r == check_dependencies(node_executions, k, get_dependencies(graph, k),
                                       graph.edges, eg.node_executions)
           IN IF ~r.should_execute
              THEN /\ node_executions' = [node_executions EXCEPT
                                             ![id] = Skipped(node_executions[id])]
                   /\ node_task' = [node_task EXCEPT ![k].pc = "done",
                                                     ![k].result = Some("skipped")]
              ELSE /\ node_executions' = [node_executions EXCEPT
                                             ![id].status = RUNNING,
                                             ![id].started_at = Some(utcnow),
                                             ![id].input_data = Some(r.inputs)]
                   /\ node_task' = [node_task EXCEPT ![k].pc = "running"]
        /\ clock' = [clock EXCEPT !.now = utcnow]
        /\ UNCHANGED <<validator, graph, execution, redis, eg, level_task, chord_level, fin_pc,
                       cancels, cancel_early>>

\* the value a node's code leaves in `output`
RunnerOutput(k) == k

\* the error of a run that exceeded timeout_seconds (code_executor.py line 17)
DeadlineExceeded == "Code execution exceeded timeout_seconds seconds"

\* the error of a run whose code raised
CodeRaised == "Exception"

\* CodeExecutor.execute: (success, output, error)
execute(k, outcome) ==
    IF outcome = "returns"
    THEN [success |-> TRUE, output |-> RunnerOutput(k), error |-> ""]
    ELSE IF outcome = "exceeds_deadline"
    THEN [success |-> FALSE, output |-> None, error |-> DeadlineExceeded]
    ELSE [success |-> FALSE, output |-> None, error |-> CodeRaised]

\* line 180: the status written for a runner result
ResultStatus(r) == IF r.success THEN SUCCESS ELSE FAILED

\* lines 170-184 for node k whose run ends with `outcome`: write the result
WriteResult(k, outcome) ==
    LET id == eg.node_executions[k]
        r == execute(k, outcome)
    IN /\ node_task[k].pc = "running"
       /\ node_executions' = [node_executions EXCEPT
              ![id].status = ResultStatus(r),
              ![id].output_data = IF r.success THEN Some(r.output) ELSE None,
              ![id].error_message = IF ~r.success THEN Some(r.error) ELSE None,
              ![id].completed_at = Some(utcnow)]
       /\ node_task' = [node_task EXCEPT ![k].pc = "ran", ![k].success = r.success]
       /\ clock' = [clock EXCEPT !.now = utcnow]
       /\ UNCHANGED <<validator, graph, execution, redis, eg, level_task, chord_level, fin_pc,
                      cancels, cancel_early>>

\* lines 170-184: the node's code returns or raises within timeout_seconds
execute_node_finish ==
    \E k \in Nodes : \E outcome \in {"returns", "raises"} : WriteResult(k, outcome)

\* lines 170-184: the node's code runs for longer than timeout_seconds
execute_node_deadline ==
    \E k \in Nodes : WriteResult(k, "exceeds_deadline")

\* hget(...) or '[]'
ListOrEmpty(v) == IF v = None THEN <<>> ELSE v[1]

\* lines 186-195, first half: read completed_nodes or failed_nodes
execute_node_hget ==
    \E k \in Nodes :
        /\ node_task[k].pc = "ran"
        /\ node_task' = [node_task EXCEPT
                            ![k].pc = "hget",
                            ![k].list = IF node_task[k].success
                                        THEN ListOrEmpty(redis.completed_nodes)
                                        ELSE ListOrEmpty(redis.failed_nodes)]
        /\ UNCHANGED <<validator, graph, clock, execution, node_executions, redis, eg, level_task,
                       chord_level, fin_pc, cancels, cancel_early>>

\* lines 186-201, second half: write the list with node_key appended, return
execute_node_hset ==
    \E k \in Nodes :
        /\ node_task[k].pc = "hget"
        /\ redis' = IF node_task[k].success
                    THEN [redis EXCEPT !.completed_nodes = Some(Append(node_task[k].list, k))]
                    ELSE [redis EXCEPT !.failed_nodes = Some(Append(node_task[k].list, k))]
        /\ node_task' = [node_task EXCEPT
                            ![k].pc = "done",
                            ![k].result = Some(IF node_task[k].success
                                               THEN "success" ELSE "failed")]
        /\ UNCHANGED <<validator, graph, clock, execution, node_executions, eg, level_task,
                       chord_level, fin_pc, cancels, cancel_early>>

\* ------------------------------------------------------------------------
\* finalize_execution
\* ------------------------------------------------------------------------

\* the names of the rows whose status is FAILED, in row order
FailedNames(rows) ==
    LET failed == SelectSeq(rows, LAMBDA ne : ne.status = FAILED)
    IN [i \in 1..Len(failed) |-> failed[i].node_key]

\* an aggregate in which one successful node is enough for SUCCESS
AggregateStatus_any_success(node_statuses) ==
    IF \E i \in DOMAIN node_statuses : node_statuses[i] = SUCCESS THEN SUCCESS
    ELSE IF \E i \in DOMAIN node_statuses : node_statuses[i] = FAILED THEN FAILED
    ELSE CANCELLED

\* an aggregate that reports a failed node as CANCELLED
AggregateStatus_no_failed(node_statuses) ==
    IF \A i \in DOMAIN node_statuses : node_statuses[i] = SUCCESS THEN SUCCESS
    ELSE CANCELLED

\* lines 261-274: the aggregate status of the node statuses
AggregateStatus(node_statuses) ==
    IF \A i \in DOMAIN node_statuses : node_statuses[i] = SUCCESS THEN SUCCESS
    ELSE IF \E i \in DOMAIN node_statuses : node_statuses[i] = FAILED THEN FAILED
    ELSE CANCELLED

\* lines 256-281
finalize_execution ==
    /\ fin_pc = "queued"
    /\ LET node_statuses == [i \in DOMAIN node_executions |-> node_executions[i].status]
           status == AggregateStatus(node_statuses)
       IN execution' = [execution EXCEPT
                           !.status = status,
                           !.error_message =
                               IF status = FAILED
                               THEN Some(FailedNames(node_executions))
                               ELSE execution.error_message,
                           !.completed_at = Some(utcnow)]
    /\ redis' = NoRedis
    /\ fin_pc' = "done"
    /\ clock' = [clock EXCEPT !.now = utcnow]
    /\ UNCHANGED <<validator, graph, node_executions, eg, level_task, chord_level,
                   node_task, cancels, cancel_early>>

\* ------------------------------------------------------------------------
\* cancel_execution
\* ------------------------------------------------------------------------

\* the fan-in of the last level has happened: its chord has called back
LastFanInDone ==
    /\ eg.levels # <<>>
    /\ \/ level_task = Len(eg.levels)
       \/ fin_pc # "none"

\* graphql_mutation.py, Mutation.cancel_execution: a PENDING or RUNNING
\* execution gets a cancel_execution task
cancel_request ==
    \E i \in 1..MaxCancels :
        /\ cancels[i].pc = "none"
        /\ \A j \in 1..(i - 1) : cancels[j].pc # "none"
        /\ execution.status \in {PENDING, RUNNING}
        /\ cancels' = [cancels EXCEPT ![i].pc = "queued"]
        /\ cancel_early' = (cancel_early \/ ~LastFanInDone)
        /\ UNCHANGED <<validator, graph, clock, execution, node_executions, redis, eg, level_task,
                       chord_level, node_task, fin_pc>>

\* lines 289-291: set the Redis status flag
cancel_execution_hset ==
    \E i \in 1..MaxCancels :
        /\ cancels[i].pc = "queued"
        /\ redis' = [redis EXCEPT !.status = Some(CANCELLED)]
        /\ cancels' = [cancels EXCEPT ![i].pc = "load"]
        /\ UNCHANGED <<validator, graph, clock, execution, node_executions, eg, level_task,
                       chord_level, node_task, fin_pc, cancel_early>>

\* the rows cancel_execution finds PENDING or RUNNING
StillOpen(rows) == {id \in DOMAIN rows : rows[id].status \in {PENDING, RUNNING}}

\* lines 293-303: load the execution and its node executions; the
\* completed_at values are read from the clock here, before the commit
cancel_execution_load ==
    \E i \in 1..MaxCancels :
        /\ cancels[i].pc = "load"
        /\ cancels' = [cancels EXCEPT ![i].pc = "commit",
                                      ![i].pending = StillOpen(node_executions),
                                      ![i].at = Some(utcnow)]
        /\ clock' = [clock EXCEPT !.now = utcnow]
        /\ UNCHANGED <<validator, graph, execution, node_executions, redis, eg, level_task,
                       chord_level, node_task, fin_pc, cancel_early>>

\* a completed_at read from the clock when the commit is made
CancelledAt_at_commit(i) == Some(utcnow)

\* lines 297 and 303: the completed_at that cancel task i assigned after loading
CancelledAt(i) == cancels[i].at

\* line 305: commit CANCELLED on the execution and on the rows found open
cancel_execution_commit ==
    \E i \in 1..MaxCancels :
        /\ cancels[i].pc = "commit"
        /\ execution' = [execution EXCEPT !.status = CANCELLED,
                                           !.completed_at = CancelledAt(i)]
        /\ node_executions' = [id \in DOMAIN node_executions |->
                                  IF id \in cancels[i].pending
                                  THEN [node_executions[id] EXCEPT
                                           !.status = CANCELLED,
                                           !.completed_at = CancelledAt(i)]
                                  ELSE node_executions[id]]
        /\ cancels' = [cancels EXCEPT ![i].pc = "done", ![i].pending = {},
                                      ![i].at = None]
        /\ UNCHANGED <<validator, graph, clock, redis, eg, level_task, chord_level, node_task,
                       fin_pc, cancel_early>>

\* ------------------------------------------------------------------------
\* Task messages delivered again
\* ------------------------------------------------------------------------

\* execute_graph has returned and no task is queued or running
Quiescent ==
    /\ eg.pc = "done"
    /\ level_task = -1
    /\ chord_level = -1
    /\ fin_pc # "queued"
    /\ \A i \in 1..MaxCancels : cancels[i].pc \in {"none", "done"}

\* line 16: the execute_graph task is run again for the same execution_id,
\* after everything its first run started has returned
execute_graph_redelivered ==
    /\ Quiescent
    /\ eg.delivery < MaxDeliveries
    /\ eg' = [eg EXCEPT !.pc = "queued", !.delivery = @ + 1]
    /\ UNCHANGED <<validator, graph, clock, execution, node_executions, redis, level_task,
                   chord_level, node_task, fin_pc, cancels, cancel_early>>

\* line 284: a cancel_execution task that has returned is run again
cancel_execution_redelivered ==
    \E i \in 1..MaxCancels :
        /\ cancels[i].pc = "done"
        /\ cancels[i].delivery < MaxDeliveries
        /\ cancels' = [cancels EXCEPT ![i].pc = "queued", ![i].delivery = @ + 1]
        /\ UNCHANGED <<validator, graph, clock, execution, node_executions, redis, eg,
                       level_task, chord_level, node_task, fin_pc, cancel_early>>

\* ------------------------------------------------------------------------
\* GraphValidator called by create_graph and by the resolvers of Graph
\* ------------------------------------------------------------------------

\* every edge names nodes of the graph, as the edges of a stored graph do
KnownKeys(g) ==
    \A i \in DOMAIN g.edges :
        /\ g.edges[i].source_node_key \in Range(g.nodes)
        /\ g.edges[i].target_node_key \in Range(g.nodes)

\* the call `op` returns or raises `result`
Answer(op, result) ==
    /\ validator.pc = "none"
    /\ validator' = [pc |-> "answered", op |-> op, result |-> result]
    /\ UNCHANGED <<graph, clock, execution, node_executions, redis, eg, level_task,
                   chord_level, node_task, fin_pc, cancels, cancel_early>>

\* graphql_mutation.py lines 67-80, create_graph: validate the input
create_graph_validate == Answer("validate", Returned(validate(graph)))

\* graphql_types.py lines 187-203, Graph.execution_levels
execution_levels ==
    /\ KnownKeys(graph)
    /\ Answer("get_execution_levels", Returned(get_execution_levels(graph)))

\* graphql_types.py lines 205-221, Graph.topological_order
topological_order ==
    /\ KnownKeys(graph)
    /\ Answer("topological_sort", topological_sort(graph))

\* ------------------------------------------------------------------------
\* Mutations that deactivate the graph or start another execution of it
\* ------------------------------------------------------------------------

\* graphql_mutation.py lines 192-202: soft delete
delete_graph ==
    /\ graph.is_active
    /\ graph' = [graph EXCEPT !.is_active = FALSE]
    /\ UNCHANGED <<validator, clock, execution, node_executions, redis, eg, level_task,
                   chord_level, node_task, fin_pc, cancels, cancel_early>>

\* a new PENDING Execution `id` of the graph with its execute_graph task
\* enqueued; the model follows the newest execution of the graph
StartExecution(id) ==
    /\ execution' = NewExecution(id)
    /\ node_executions' = <<>>
    /\ redis' = NoRedis
    /\ eg' = QueuedExecuteGraph
    /\ level_task' = -1
    /\ chord_level' = -1
    /\ node_task' = [k \in Nodes |-> IdleTask]
    /\ fin_pc' = "none"
    /\ cancels' = NoCancels
    /\ cancel_early' = FALSE
    /\ UNCHANGED <<validator, graph, clock>>

\* graphql_mutation.py lines 222-249, Mutation.execute_graph called again
\* once the execution before has come to rest: only for an active graph
execute_graph_mutation ==
    /\ Quiescent
    /\ execution.id < MaxExecutions
    /\ graph.is_active
    /\ StartExecution(execution.id + 1)

\* graphql_mutation.py lines 309-335, Mutation.retry_execution once the
\* execution has come to rest: the old execution only has to exist
retry_execution ==
    /\ Quiescent
    /\ execution.id < MaxExecutions
    /\ StartExecution(execution.id + 1)

\* ------------------------------------------------------------------------
\* Specification
\* ------------------------------------------------------------------------

Next ==
    \/ execute_graph_start
    \/ execute_graph_init_state
    \/ execute_graph_create_nodes
    \/ execute_level_finalize
    \/ execute_level_cancelled
    \/ execute_level_dispatch
    \/ chord_callback
    \/ execute_node_begin
    \/ execute_node_finish
    \/ execute_node_hget
    \/ execute_node_hset
    \/ finalize_execution
    \/ cancel_request
    \/ cancel_execution_hset
    \/ cancel_execution_load
    \/ cancel_execution_commit

\* node code that ends within its timeout_seconds
Spec == Init /\ [][Next]_vars

SpecAnyGraph == InitAnyGraph /\ [][Next]_vars

\* node code that may also run past its timeout_seconds
NextDeadline == Next \/ execute_node_deadline

SpecDeadline == Init /\ [][NextDeadline]_vars

\* timestamps that tell the order of the writes
SpecTimed == InitTimed /\ [][Next]_vars

\* task messages that the broker may deliver more than once
NextRedelivery ==
    \/ Next
    \/ execute_graph_redelivered
    \/ cancel_execution_redelivered

SpecRedelivery == InitRedelivery /\ [][NextRedelivery]_vars

\* graphs that are deactivated and executed again
NextApi ==
    \/ Next
    \/ delete_graph
    \/ execute_graph_mutation
    \/ retry_execution

SpecApi == InitApi /\ [][NextApi]_vars

\* the pure functions of GraphValidator applied to graph
NextValidator ==
    \/ create_graph_validate
    \/ execution_levels
    \/ topological_order

SpecValidator == InitValidator /\ [][NextValidator]_vars

\* ------------------------------------------------------------------------
\* Vocabulary of the properties
\* ------------------------------------------------------------------------

\* a client has asked for the execution to be cancelled
CancelRequested == \E i \in 1..MaxCancels : cancels[i].pc # "none"

\* cancel_execution has written the CANCELLED flag to Redis
CancelFlagWritten == \E i \in 1..MaxCancels : cancels[i].pc \in {"load", "commit", "done"}

\* the NodeExecution row of node k, once created
Row(k) == node_executions[eg.node_executions[k]]

\* execute_node has evaluated the gate of k
Started(k) == node_task[k].pc \notin {"idle", "queued"}

\* execute_node has written a terminal status for k
TerminalWritten(k) == node_task[k].pc \in {"ran", "hget", "done"}

\* execute_node returned 'skipped' for k: cancelled by its gate
GateCancelled(k) == node_task[k].result = Some("skipped")

\* the runner was invoked for k
RunnerInvoked(k) == Started(k) /\ ~GateCancelled(k)

\* the edges into k
Incoming(k) == {i \in DOMAIN graph.edges : graph.edges[i].target_node_key = k}

\* spec.md 4.5 step 3b and claim C9: a terminal status matches a condition
Matches(condition, status) ==
    \/ condition = ALWAYS /\ status \in Terminal
    \/ condition = ON_SUCCESS /\ status = SUCCESS
    \/ condition = ON_FAILURE /\ status = FAILED

\* ------------------------------------------------------------------------
\* Properties
\* ------------------------------------------------------------------------

\* C1: once the Execution's status or a NodeExecution's status is SUCCESS,
\* FAILED, CANCELLED or TIMEOUT, no step changes it to a different value.
C1_TerminalStatusIsFinal ==
    [][/\ execution.status \in Terminal => execution'.status = execution.status
       /\ \A id \in DOMAIN node_executions :
             node_executions[id].status \in Terminal
                 => node_executions'[id].status = node_executions[id].status]_vars

\* C2: no node of level i+1 has its gate evaluated (RUNNING or gate-CANCELLED
\* written by execute_node) before every node of level i has had its terminal
\* status written, and execute_level for level i+1 is queued only when every
\* node task of level i has returned.
C2_LevelBarrier ==
    \A i \in 1..Len(eg.levels) :
        /\ i < Len(eg.levels) =>
              \A v \in Range(eg.levels[i + 1]) :
                  Started(v) => \A u \in Range(eg.levels[i]) : TerminalWritten(u)
        /\ level_task = i =>
              \A u \in Range(eg.levels[i]) : node_task[u].pc = "done"

\* C2 witness: a node of a later level has started after its previous level
C2_Witness ==
    \E i \in 1..(Len(eg.levels) - 1) :
        /\ Len(eg.levels[i]) > 1
        /\ \E v \in Range(eg.levels[i + 1]) : Started(v)

\* C3: every execution handed to execute_graph ends with a terminal status;
\* stated on finite runs: when execute_graph has returned and no task is left
\* to run, the Execution row has a terminal status.
C3_EndsTerminal == Quiescent => execution.status \in Terminal

\* C4: with no cancel requested, finalize_execution writes SUCCESS if and only
\* if every NodeExecution is SUCCESS or was CANCELLED by its gate.
C4_SuccessIffAllSuccessOrSkipped ==
    (fin_pc = "done" /\ ~CancelRequested) =>
        (execution.status = SUCCESS <=>
            \A k \in Nodes : \/ Row(k).status = SUCCESS
                             \/ Row(k).status = CANCELLED /\ GateCancelled(k))

\* some NodeExecution is FAILED or TIMEOUT
SomeNodeFailed ==
    \E id \in DOMAIN node_executions : node_executions[id].status \in {FAILED, TIMEOUT}

\* C5 as claimed: a terminal Execution is FAILED if and only if some
\* NodeExecution is FAILED or TIMEOUT.
C5_FailedIffNodeFailed ==
    execution.status \in Terminal => (execution.status = FAILED <=> SomeNodeFailed)

\* C5 amended: when no cancel was requested, a terminal Execution is FAILED if
\* and only if some NodeExecution is FAILED or TIMEOUT.
C5_FailedIffNodeFailedNoCancel ==
    (execution.status \in Terminal /\ ~CancelRequested) =>
        (execution.status = FAILED <=> SomeNodeFailed)

\* C5 witness: no cancel, a node failed, its ON_FAILURE successor succeeded,
\* and the execution is FAILED
C5_Witness ==
    /\ ~CancelRequested
    /\ execution.status = FAILED
    /\ \E i \in DOMAIN graph.edges :
          /\ graph.edges[i].condition = ON_FAILURE
          /\ Row(graph.edges[i].source_node_key).status = FAILED
          /\ Row(graph.edges[i].target_node_key).status = SUCCESS

\* C6: an Execution with status SUCCESS has no NodeExecution that is FAILED
\* or TIMEOUT.
C6_SuccessHasNoFailedNode == execution.status = SUCCESS => ~SomeNodeFailed

\* C6 witness: the execution is SUCCESS after several nodes ran
C6_Witness ==
    /\ execution.status = SUCCESS
    /\ Len(node_executions) > 1
    /\ \A k \in Nodes : RunnerInvoked(k)

\* C7: the final status is CANCELLED if and only if a cancel was requested
\* before the fan-in of the last level.
C7_CancelledIffCancelEarly ==
    (Quiescent /\ execution.status \in Terminal) =>
        (execution.status = CANCELLED <=> cancel_early)

\* C8: once cancel_execution has set the Redis status flag to CANCELLED, no
\* node's runner is started.
C8_NoRunnerAfterCancelFlag ==
    [][CancelFlagWritten =>
          \A k \in Nodes : ~(node_task[k].pc = "queued" /\ node_task'[k].pc = "running")]_vars

\* C9: with no cancel requested, a node whose gate was evaluated is cancelled
\* by the gate if and only if some incoming edge has a condition that the
\* predecessor's terminal status does not match.
C9_GateCancelledIffMismatch ==
    \A v \in Nodes :
        (~CancelRequested /\ Started(v)) =>
            (GateCancelled(v) <=>
                \E i \in Incoming(v) :
                    ~Matches(graph.edges[i].condition,
                             Row(graph.edges[i].source_node_key).status))

\* C10: with no cancel requested, a node all of whose incoming edges are
\* ALWAYS is run once its gate is evaluated, whatever its predecessors'
\* terminal statuses.
C10_AlwaysEdgesRun ==
    \A v \in Nodes :
        (/\ ~CancelRequested
         /\ Started(v)
         /\ \A i \in Incoming(v) : graph.edges[i].condition = ALWAYS)
            => RunnerInvoked(v)

\* the predecessors of k
Predecessors(k) == Range(get_dependencies(graph, k))

\* C11: the input_data of a NodeExecution that was written RUNNING has exactly
\* the keys of its predecessors whose NodeExecution is SUCCESS, each mapped to
\* that predecessor's output.
C11_InputsAreSuccessfulPredecessors ==
    \A v \in Nodes :
        RunnerInvoked(v) =>
            Row(v).input_data =
                Some([u \in {p \in Predecessors(v) : Row(p).status = SUCCESS} |->
                         Row(u).output_data[1]])

\* C12: a runner failure caused by the exceeded deadline is written TIMEOUT,
\* any other runner failure FAILED.
C12_DeadlineIsTimeout ==
    [][\A k \in Nodes :
          (node_task[k].pc = "running" /\ node_task'[k].pc = "ran") =>
              LET row == node_executions'[eg.node_executions[k]]
              IN /\ row.error_message = Some(DeadlineExceeded) => row.status = TIMEOUT
                 /\ row.error_message = Some(CodeRaised) => row.status = FAILED]_vars

\* C13: for a graph that validate rejects (cyclic or malformed), once
\* execute_graph has analysed it the Execution is FAILED with an
\* error_message and completed_at, and no node is ever run.
C13_MalformedGraphFails ==
    ~validate(graph).is_valid =>
        /\ \A k \in Nodes : ~RunnerInvoked(k)
        /\ (eg.pc \in {"create", "done"} /\ ~CancelRequested) =>
              /\ execution.status = FAILED
              /\ execution.error_message # None
              /\ execution.completed_at # None

\* both NodeExecutions of the edge were written RUNNING
BothStarted(e) ==
    /\ RunnerInvoked(e.source_node_key)
    /\ RunnerInvoked(e.target_node_key)

SecondExecuteGraphStep == eg.delivery > 1 /\ eg'.pc # eg.pc

\* C14: running execute_graph a second time for the same execution id is a
\* no-op: it rewrites no Execution or NodeExecution status or timestamp,
\* creates no NodeExecution row, does not reinitialise the Redis state and
\* runs no node again.
C14_SecondExecuteGraphIsNoOp ==
    [][SecondExecuteGraphStep =>
          /\ execution' = execution
          /\ node_executions' = node_executions
          /\ redis' = redis
          /\ level_task' = level_task]_vars

\* the steps of cancel_execution call i when it is not the first call
FurtherCancelStep(i) == cancels[i].delivery > 1 /\ cancels'[i].pc # cancels[i].pc

\* C15: after a first cancel_execution has been applied, every further
\* cancel_execution call leaves the Execution row, all NodeExecution rows and
\* the Redis state exactly as they were.
C15_FurtherCancelIsNoOp ==
    [][\A i \in 1..MaxCancels :
          FurtherCancelStep(i) =>
              /\ execution' = execution
              /\ node_executions' = node_executions
              /\ redis' = redis]_vars

\* the allowed status changes of a NodeExecution
NodeStatusFlow ==
    {<<PENDING, RUNNING>>, <<RUNNING, SUCCESS>>, <<RUNNING, FAILED>>,
     <<RUNNING, TIMEOUT>>, <<PENDING, CANCELLED>>}

\* C17: every status change of a NodeExecution is PENDING to RUNNING, RUNNING
\* to SUCCESS, FAILED or TIMEOUT, or PENDING to CANCELLED; a node that is
\* RUNNING when a cancel is requested keeps the status of its runner result.
C17_NodeStatusFlow ==
    [][\A id \in DOMAIN node_executions :
          node_executions'[id].status # node_executions[id].status =>
              <<node_executions[id].status, node_executions'[id].status>>
                  \in NodeStatusFlow]_vars

\* the NodeExecution rows of node k
RowsOf(k) == {id \in DOMAIN node_executions : node_executions[id].node_key = k}

\* C18: once execute_graph has created the node rows, the Execution has
\* exactly one NodeExecution for each Node of its Graph, whatever tasks run or
\* are delivered again afterwards.
C18_OneRowPerNode ==
    node_executions # <<>> => \A k \in Nodes : Cardinality(RowsOf(k)) = 1

\* C19: for the Execution and for every NodeExecution, completed_at is set
\* if and only if the status is terminal, and started_at is set if and only
\* if RUNNING has been written.
C19_TimestampsFollowStatus ==
    /\ execution.completed_at # None <=> execution.status \in Terminal
    /\ execution.started_at # None <=> eg.pc # "queued" \/ eg.delivery > 1
    /\ \A k \in DOMAIN eg.node_executions :
          /\ Row(k).completed_at # None <=> Row(k).status \in Terminal
          /\ Row(k).started_at # None <=> RunnerInvoked(k)

\* C20: the Execution's error_message is non-empty if and only if its status
\* is FAILED, CANCELLED or TIMEOUT.
C20_ErrorMessageIffNotSuccess ==
    execution.error_message # None <=> execution.status \in {FAILED, CANCELLED, TIMEOUT}

\* C21: a NodeExecution has non-null output_data only if its status is
\* SUCCESS, for every interleaving of the node's completion write with the
\* writes of cancel_execution.
C21_OutputOnlyOnSuccess ==
    \A id \in DOMAIN node_executions :
        node_executions[id].output_data # None => node_executions[id].status = SUCCESS

\* C22: no new Execution is created or dispatched for a graph whose
\* is_active flag is false, through the execute_graph mutation or the
\* retry_execution mutation.
C22_InactiveGraphStartsNothing ==
    [][execution'.id # execution.id => graph.is_active]_vars

\* ------------------------------------------------------------------------
\* Properties of GraphValidator
\* ------------------------------------------------------------------------

\* the node keys a graph mentions, in its nodes or in its edges
Keys(g) ==
    Range(g.nodes) \cup {g.edges[i].source_node_key : i \in DOMAIN g.edges}
                   \cup {g.edges[i].target_node_key : i \in DOMAIN g.edges}

\* the targets of the edges that leave u, and the sources of those into v
Succ(g, u) ==
    {g.edges[i].target_node_key : i \in {j \in DOMAIN g.edges : g.edges[j].source_node_key = u}}
Pred(g, v) ==
    {g.edges[i].source_node_key : i \in {j \in DOMAIN g.edges : g.edges[j].target_node_key = v}}

\* the keys reached from the set S along at most n more edges
RECURSIVE ReachIn(_, _, _)
ReachIn(g, S, n) ==
    IF n = 0 THEN S ELSE ReachIn(g, S \cup UNION {Succ(g, u) : u \in S}, n - 1)

\* the keys reached from u along one edge or more
Reachable(g, u) == ReachIn(g, Succ(g, u), Len(g.edges))

\* no key is reached from itself
Acyclic(g) == \A u \in Keys(g) : u \notin Reachable(g, u)

Max(S) == CHOOSE m \in S : \A n \in S : n <= m

\* the number of edges of the longest path of an acyclic graph that ends in v
RECURSIVE LongestPath(_, _)
LongestPath(g, v) ==
    IF Pred(g, v) = {} THEN 0
    ELSE 1 + Max({LongestPath(g, u) : u \in Pred(g, v)})

\* the call `op` of the validator has been answered
Answered(op) == validator.pc = "answered" /\ validator.op = op

\* the levels of `levels` in which key v appears
LevelsOf(levels, v) == {i \in DOMAIN levels : v \in Range(levels[i])}

\* C23: for every acyclic graph, get_execution_levels returns a partition of
\* the node keys in which each node's level is the length of the longest
\* path from a root to it (level 0: the nodes of in-degree 0), so every edge
\* goes from a lower level to a strictly higher level.
C23_LevelsAreLongestPathLayers ==
    (Answered("get_execution_levels") /\ Acyclic(graph)) =>
        LET levels == validator.result.value
        IN /\ \A i \in DOMAIN levels :
                 /\ Range(levels[i]) \subseteq Nodes
                 /\ Cardinality(Range(levels[i])) = Len(levels[i])
           /\ \A v \in Nodes : LevelsOf(levels, v) = {LongestPath(graph, v) + 1}
           /\ \A i \in DOMAIN graph.edges :
                 \A a \in LevelsOf(levels, graph.edges[i].source_node_key) :
                    \A b \in LevelsOf(levels, graph.edges[i].target_node_key) : a < b

\* a graph whose node C is one edge from a root and also two edges from it
C23_Witness ==
    /\ Answered("get_execution_levels")
    /\ Acyclic(graph)
    /\ \E v \in Nodes : \E u \in Pred(graph, v) :
          /\ Pred(graph, u) = {}
          /\ LongestPath(graph, v) = 2

\* some edge starts and ends at the same key
HasSelfLoop(g) ==
    \E i \in DOMAIN g.edges : g.edges[i].source_node_key = g.edges[i].target_node_key

\* two edges have the same source, target and condition
HasDuplicateEdge(g) ==
    \E i, j \in DOMAIN g.edges : i # j /\ g.edges[i] = g.edges[j]

\* what the graph invariants ask of a graph
WellFormed(g) ==
    /\ g.nodes # <<>>
    /\ KnownKeys(g)
    /\ Acyclic(g)
    /\ ~HasSelfLoop(g)
    /\ ~HasDuplicateEdge(g)

\* C24: validate() returns ok exactly for graphs with at least one node,
\* edges that reference only known node keys, no cycle, no self-loop and no
\* duplicate edge; for every other graph it returns not-ok with a non-empty
\* reason.
C24_ValidateAcceptsWellFormed ==
    Answered("validate") =>
        LET r == validator.result.value
        IN /\ r.is_valid <=> WellFormed(graph)
           /\ ~r.is_valid => r.error_message # ""

\* the position of key v in the sequence s
Pos(s, v) == CHOOSE i \in DOMAIN s : s[i] = v

\* the keys emitted before position p of `order`
Emitted(order, p) == {order[i] : i \in 1..(p - 1)}

\* the nodes not yet emitted at position p whose predecessors all are
Ready(order, p) ==
    {v \in Nodes : v \notin Emitted(order, p) /\ Pred(graph, v) \subseteq Emitted(order, p)}

\* the ready node at position p that was supplied earliest in the node list
EarliestSupplied(order, p) ==
    CHOOSE v \in Ready(order, p) :
        \A w \in Ready(order, p) : Pos(graph.nodes, v) <= Pos(graph.nodes, w)

\* `order` holds each node key exactly once, every edge's source before its target
IsTopologicalOrder(order) ==
    /\ Len(order) = Len(graph.nodes)
    /\ Range(order) = Nodes
    /\ \A i \in DOMAIN graph.edges :
          Pos(order, graph.edges[i].source_node_key)
              < Pos(order, graph.edges[i].target_node_key)

\* the position at which the last predecessor of v was emitted, 0 for a root
ReadyAt(order, v) ==
    IF Pred(graph, v) = {} THEN 0
    ELSE Max({Pos(order, u) : u \in Pred(graph, v)})

\* C25: for every acyclic graph topological_sort returns each node key
\* exactly once with the source of every edge before its target, and of the
\* nodes ready at the same time the one supplied earliest in the node list
\* is emitted first; for every cyclic graph it fails.
C25_TopologicalSortEarliestSupplied ==
    Answered("topological_sort") =>
        IF Acyclic(graph)
        THEN /\ ~validator.result.raised
             /\ IsTopologicalOrder(validator.result.value)
             /\ \A p \in DOMAIN validator.result.value :
                   validator.result.value[p] = EarliestSupplied(validator.result.value, p)
        ELSE validator.result.raised

\* C25 as amended: for every acyclic graph topological_sort returns each
\* node key exactly once with the source of every edge before its target;
\* the nodes without predecessors come first, in the order of the node list,
\* and a node whose last predecessor was emitted earlier comes before a node
\* whose last predecessor was emitted later; for every cyclic graph it fails.
C25_TopologicalSortFirstReady ==
    Answered("topological_sort") =>
        IF Acyclic(graph)
        THEN LET order == validator.result.value
             IN /\ ~validator.result.raised
                /\ IsTopologicalOrder(order)
                /\ \A p, q \in DOMAIN order :
                      p < q =>
                         /\ ReadyAt(order, order[p]) <= ReadyAt(order, order[q])
                         /\ ReadyAt(order, order[q]) = 0 =>
                               Pos(graph.nodes, order[p]) < Pos(graph.nodes, order[q])
        ELSE validator.result.raised

\* an order was returned in which a node supplied later was emitted while a
\* node supplied earlier was ready too
C25_Witness ==
    /\ Answered("topological_sort")
    /\ Acyclic(graph)
    /\ ~validator.result.raised
    /\ \E p \in DOMAIN validator.result.value :
          validator.result.value[p] # EarliestSupplied(validator.result.value, p)

\* ------------------------------------------------------------------------
\* Properties of the gate, the Redis lists and the final rows
\* ------------------------------------------------------------------------

\* execute_node for k takes the step that finds its gate failed
GateFails(k) == node_task[k].pc = "queued" /\ node_task'[k].result = Some("skipped")

\* C26: when a node's gate fails, execute_node writes its NodeExecution
\* CANCELLED with completed_at set and returns without invoking the runner,
\* leaving started_at, input_data, output_data and error_message unset and
\* the Redis completed_nodes and failed_nodes lists unchanged.
C26_GateFailureFrame ==
    [][\A k \in Nodes :
          GateFails(k) =>
              LET row == node_executions'[eg.node_executions[k]]
              IN /\ row.status = CANCELLED
                 /\ row.completed_at # None
                 /\ row.started_at = None
                 /\ row.input_data = None
                 /\ row.output_data = None
                 /\ row.error_message = None
                 /\ node_task'[k].pc = "done"
                 /\ redis' = redis]_vars

\* a node has been skipped by its gate
C26_Witness ==
    \E k \in Nodes : GateCancelled(k) /\ Row(k).status = CANCELLED

\* how many times key k appears in the list s
Count(s, k) == Cardinality({i \in DOMAIN s : s[i] = k})

\* every node task of the level in flight has returned
LevelFinished == chord_level >= 0 /\ ChordReady(eg.levels[chord_level + 1])

\* C27: after all node tasks of a level have finished, every node of that
\* level whose runner was invoked appears exactly once in exactly one of the
\* Redis lists: completed_nodes if it succeeded, failed_nodes if it failed.
C27_RedisListsHoldEveryNode ==
    LevelFinished =>
        \A k \in Range(eg.levels[chord_level + 1]) :
            RunnerInvoked(k) =>
                LET completed == Count(ListOrEmpty(redis.completed_nodes), k)
                    failed == Count(ListOrEmpty(redis.failed_nodes), k)
                IN IF node_task[k].success
                   THEN completed = 1 /\ failed = 0
                   ELSE completed = 0 /\ failed = 1

\* C28: whenever the Execution's status is terminal, none of its
\* NodeExecutions is PENDING or RUNNING.
C28_TerminalExecutionHasNoOpenNode ==
    execution.status \in Terminal => StillOpen(node_executions) = {}

\* execute_node for k takes the step that writes RUNNING and goes on to the runner
RunnerStarts(k) == node_task[k].pc = "queued" /\ node_task'[k].pc = "running"

\* a predecessor status that lets the dependency check go on
Unblocking == {SUCCESS, FAILED}

RECURSIVE Flatten(_)
Flatten(levels) == IF levels = <<>> THEN <<>> ELSE Head(levels) \o Flatten(Tail(levels))

\* the rows after the nodes of `order` have run one after the other, each to
\* its end before the next begins, with the outcomes the node tasks recorded
RECURSIVE RunInOrder(_, _)
RunInOrder(rows, order) ==
    IF order = <<>> THEN rows
    ELSE LET k == Head(order)
             id == eg.node_executions[k]
             r == check_dependencies(rows, k, get_dependencies(graph, k),
                                     graph.edges, eg.node_executions)
             res == execute(k, IF node_task[k].success THEN "returns" ELSE "raises")
             row == IF ~r.should_execute
                    THEN [rows[id] EXCEPT !.status = CANCELLED]
                    ELSE [rows[id] EXCEPT
                             !.status = ResultStatus(res),
                             !.input_data = Some(r.inputs),
                             !.output_data = IF res.success THEN Some(res.output) ELSE None]
         IN RunInOrder([rows EXCEPT ![id] = row], Tail(order))

\* the rows of the one-node-at-a-time run of the whole graph
SequentialRows ==
    RunInOrder([id \in DOMAIN node_executions |->
                   NewNodeExecution(node_executions[id].node_key)],
               Flatten(eg.levels))

\* finalize_execution has run and no cancel was ever requested
FinishedUncancelled == fin_pc = "done" /\ ~CancelRequested

\* C30: with no cancel requested, for a fixed acyclic graph and a fixed
\* outcome and output per node run, the final status and input_data of
\* every NodeExecution and the final Execution status are the same for every
\* interleaving of the execute_node tasks within each level: they are those
\* of the run that takes the nodes one at a time.
C30_InterleavingIndependent ==
    FinishedUncancelled =>
        /\ \A id \in DOMAIN node_executions :
              /\ node_executions[id].status = SequentialRows[id].status
              /\ node_executions[id].input_data = SequentialRows[id].input_data
        /\ execution.status =
              AggregateStatus([id \in DOMAIN node_executions |-> SequentialRows[id].status])

\* a finished run in which two nodes of one level ran and a node of the next
\* level took its inputs from them
C30_Witness ==
    /\ FinishedUncancelled
    /\ \E i \in DOMAIN eg.levels : \E a, b \in Range(eg.levels[i]) :
          /\ a # b
          /\ RunnerInvoked(a) /\ RunnerInvoked(b)
          /\ \E v \in Nodes : {a, b} \subseteq Predecessors(v) /\ RunnerInvoked(v)

====
